---- MODULE Spec2Model ----
(***************************************************************************)
(* AuthService (src/auth.service.ts): the authenticated request gateway,   *)
(* the refresh routine and logout, over the cookie session store.          *)
(*                                                                         *)
(* One step of the model is one task of the single-threaded event loop:    *)
(* a call of a public method, or the delivery of one HTTP response to the  *)
(* rxjs pipeline that waits for it.  Everything a task does synchronously  *)
(* (cookie writes, navigation, building and sending the next request,      *)
(* calling the closure) belongs to that one step.                          *)
(***************************************************************************)
EXTENDS Integers, Sequences, FiniteSets, TLC

VARIABLES
  cookies,    \* the cookie store: key -> value, "" when the cookie is absent
  route,      \* the last destination given to router.navigate
  reloading,  \* window.location.reload() was called, the page is not yet unloaded
  calls,      \* one record per verb call made so far, in call order: where its
              \* pipeline stands, the request it issued last, the refresh
              \* request it posted, how many requests it has issued, the
              \* responses it got, the closure invocations
  downloads,  \* one record per PostDownload call: the request of the
              \* observable it built and how often that request was sent
  logins      \* one record per authenticateUser call: the login request of
              \* the observable given to the caller, and its answer

vars == <<cookies, route, reloading, calls, downloads, logins>>

----------------------------------------------------------------------------
(* Bounds *)

\* number of calls made in one run of Spec, by any of the four verb methods,
\* PostDownload and authenticateUser
MaxCalls == 1

\* number of GetRequest calls made in one run of ConcSpec
MaxConcurrent == 2

----------------------------------------------------------------------------
(* JavaScript values that travel through the pipelines *)

Null == [t |-> "null", s |-> "", message |-> ""]

Undefined == [t |-> "undefined", s |-> "", message |-> ""]

Str(x) == [t |-> "str", s |-> x, message |-> ""]

\* an object: s names the object, message is its message property
Obj(name, msg) == [t |-> "obj", s |-> name, message |-> msg]

\* the evaluation of v.message threw a TypeError
TypeError == [t |-> "TypeError", s |-> "", message |-> ""]

\* v.message: a TypeError on null and undefined, the property of an object,
\* undefined on a string
GetMessage(v) ==
  IF v.t \in {"null", "undefined"} THEN TypeError
  ELSE IF v.t = "obj" THEN Str(v.message)
  ELSE Undefined

----------------------------------------------------------------------------
(* The session store *)

SessionKeys == {"is_loggedin", "logged_user", "role", "access_token", "refresh_token"}

LoggedOut == [k \in SessionKeys |-> ""]

LoggedIn ==
  [is_loggedin |-> "yes", logged_user |-> "u1", role |-> "admin",
   access_token |-> "A1", refresh_token |-> "R1"]

\* cookieService.get(key): the value, '' when the cookie is absent
CookieGet(ck, key) == ck[key]

\* cookieService.set(key, value, expiry, '/')
CookieSet(ck, key, value) == [ck EXCEPT ![key] = value]

\* cookieService.delete(key, '/')
CookieDelete(ck, key) == [ck EXCEPT ![key] = ""]

----------------------------------------------------------------------------
(* The server's answers *)

Verbs == {"GET", "POST", "PUT", "DELETE"}

Uris == {"/profile"}

apiUrl == "{base}"

\* the payload of a verb call: POST and PUT carry one, GET and DELETE none
PayloadOf(verb) == IF verb \in {"POST", "PUT"} THEN Obj("payload", "") ELSE Undefined

\* the error body of the response to request `of`: an object of that
\* response, with a message
ErrorBody(of) == Obj(of \o "-error", of \o "-message")

\* a response not yet received
NoResp == [status |-> -1, body |-> Undefined, access_token |-> "", refresh_token |-> ""]

OkResp(of) == [status |-> 200, body |-> Obj(of \o "-ok", ""), access_token |-> "", refresh_token |-> ""]

ErrResp(st, b) == [status |-> st, body |-> b, access_token |-> "", refresh_token |-> ""]

\* the error answers to request `of`: an authorization rejection, another
\* error with an error body, another error without one
ErrResps(of) ==
  {ErrResp(401, ErrorBody(of)), ErrResp(500, ErrorBody(of)), ErrResp(500, Null)}

\* the answers to the first request of a verb call
FirstResps == {OkResp("first")} \cup ErrResps("first")

\* the answers to the reissued request of a verb call
RetryResps == {OkResp("retry")} \cup ErrResps("retry")

\* the token pairs the refresh endpoint issues
TokenPairs == {<<"A2", "R2">>, <<"A3", "R3">>}

RefreshOkResps ==
  {[status |-> 200, body |-> Obj("refresh-ok", ""), access_token |-> p[1], refresh_token |-> p[2]] :
     p \in TokenPairs}

\* the answers to a refresh request
RefreshResps ==
  RefreshOkResps \cup {ErrResp(401, ErrorBody("refresh")), ErrResp(500, ErrorBody("refresh"))}

----------------------------------------------------------------------------
(* Requests *)

\* the header built from the refresh token cookie
ReturnHttpHeadersRefreshToken(ck) ==
  [Authorization |-> "Bearer " \o CookieGet(ck, "refresh_token")]

\* ReturnHttpHeaders(): the Authorization header built from the cookie as it
\* is when the request is built
ReturnHttpHeaders(ck) == [Authorization |-> "Bearer " \o CookieGet(ck, "access_token")]

\* this.http.<verb>(Globals.apiUrl + uri, payload, this.ReturnHttpHeaders())
VerbHttp(verb, uri, ck) ==
  [method |-> verb, url |-> apiUrl \o uri, body |-> PayloadOf(verb),
   Authorization |-> ReturnHttpHeaders(ck).Authorization]

\* the request RefreshToken() posts, built from the cookies as they are then
RefreshHttp(ck) ==
  [method |-> "POST", url |-> apiUrl \o "/auth/refresh-token",
   Username |-> CookieGet(ck, "logged_user"),
   RefreshToken |-> CookieGet(ck, "refresh_token")]

\* a call that has not called RefreshToken() has posted no refresh request
NoRefreshHttp == [method |-> "", url |-> "", Username |-> "", RefreshToken |-> ""]

\* the request switchMap issues after RefreshToken() has emitted
RetryRequest(call, ck) == VerbHttp(call.verb, call.uri, ck)

----------------------------------------------------------------------------
(* logoutUser and RefreshToken *)

\* logoutUser without the delete of 'role'
LogoutCookiesKeepsRole(ck) ==
  CookieDelete(CookieDelete(CookieDelete(CookieDelete(ck,
    "is_loggedin"), "logged_user"), "access_token"), "refresh_token")

\* the five deletes of logoutUser
LogoutCookies(ck) ==
  CookieDelete(CookieDelete(CookieDelete(CookieDelete(CookieDelete(ck,
    "is_loggedin"), "logged_user"), "role"), "access_token"), "refresh_token")

\* RefreshToken logging out on every failure, not on 401 only
RefreshCookiesLogoutOnAnyError(ck, resp) ==
  IF resp.status = 200
    THEN CookieSet(CookieSet(ck, "access_token", resp.access_token),
                   "refresh_token", resp.refresh_token)
  ELSE LogoutCookies(ck)

\* RefreshToken leaving the session alone when the refresh is rejected
RefreshCookiesKeepsSessionOn401(ck, resp) ==
  IF resp.status = 200
    THEN CookieSet(CookieSet(ck, "access_token", resp.access_token),
                   "refresh_token", resp.refresh_token)
  ELSE ck

\* RefreshToken not overwriting the pair A3, R3 by another pair
RefreshCookiesKeepsLaterPair(ck, resp) ==
  IF resp.status = 200
    THEN IF CookieGet(ck, "access_token") = "A3" THEN ck
         ELSE CookieSet(CookieSet(ck, "access_token", resp.access_token),
                        "refresh_token", resp.refresh_token)
  ELSE IF resp.status = 401 THEN LogoutCookies(ck)
  ELSE ck

\* RefreshToken setting the login flag along with the two tokens
RefreshCookiesSetsLoginFlag(ck, resp) ==
  IF resp.status = 200
    THEN CookieSet(CookieSet(CookieSet(ck, "access_token", resp.access_token),
                             "refresh_token", resp.refresh_token),
                   "is_loggedin", "yes")
  ELSE IF resp.status = 401 THEN LogoutCookies(ck)
  ELSE ck

\* RefreshToken storing the new refresh token and not the new access token
RefreshCookiesRefreshTokenOnly(ck, resp) ==
  IF resp.status = 200 THEN CookieSet(ck, "refresh_token", resp.refresh_token)
  ELSE IF resp.status = 401 THEN LogoutCookies(ck)
  ELSE ck

\* RefreshToken storing the new access token and not the new refresh token
RefreshCookiesAccessOnly(ck, resp) ==
  IF resp.status = 200 THEN CookieSet(ck, "access_token", resp.access_token)
  ELSE IF resp.status = 401 THEN LogoutCookies(ck)
  ELSE ck

\* the cookies after RefreshToken's pipeline has handled the response: map
\* stores the two tokens, catchError logs out on 401 and touches nothing else
RefreshCookies(ck, resp) ==
  IF resp.status = 200
    THEN CookieSet(CookieSet(ck, "access_token", resp.access_token),
                   "refresh_token", resp.refresh_token)
  ELSE IF resp.status = 401 THEN LogoutCookies(ck)
  ELSE ck

\* router.navigate in RefreshToken's catchError
RefreshRoute(rt, resp) ==
  IF resp.status = 200 THEN rt
  ELSE IF resp.status = 401 THEN "/401"
  ELSE "/400"

\* window.location.reload() is reached through logoutUser on a 401 only
RefreshReloads(resp) == resp.status = 401

\* what the observable returned by RefreshToken() delivers downstream: map
\* turns the response into a value, catchError replaces the error by of(null)
RefreshTokenOutput(resp) ==
  IF resp.status = 200 THEN "next" ELSE "next"

----------------------------------------------------------------------------
(* The closure invocations of a verb pipeline *)

Invocation(status, body) == [status |-> status, body |-> body]

\* the outer catchError calling closure on a 401 too, before it refreshes
FirstClosureOn401Too(resp) ==
  IF resp.status = 200 THEN <<Invocation(200, resp.body)>>
  ELSE IF GetMessage(resp.body) = TypeError THEN <<>>
  ELSE <<Invocation(resp.status, GetMessage(resp.body))>>

\* outer map and the else branch of the outer catchError; the argument
\* error.error.message is evaluated before closure is called
FirstClosure(resp) ==
  IF resp.status = 200 THEN <<Invocation(200, resp.body)>>
  ELSE IF resp.status = 401 THEN <<>>
  ELSE IF GetMessage(resp.body) = TypeError THEN <<>>
  ELSE <<Invocation(resp.status, GetMessage(resp.body))>>

\* where the pipeline stands after the first response
FirstPc(resp) ==
  IF resp.status = 200 THEN "done"
  ELSE IF resp.status = 401 THEN "refreshing"
  ELSE IF GetMessage(resp.body) = TypeError THEN "crashed"
  ELSE "done"

\* inner map and inner catchError, on the answer to the reissued request
RetryClosure(resp) ==
  IF resp.status = 200 THEN <<Invocation(200, resp.body)>>
  ELSE <<Invocation(resp.status, resp.body)>>

\* inner catchError on an error delivered by RefreshToken() itself
RefreshErrorClosure(resp) == <<Invocation(resp.status, resp.body)>>

----------------------------------------------------------------------------
(* State *)

Init ==
  /\ cookies \in {LoggedOut, LoggedIn}
  /\ route = "/"
  /\ reloading = FALSE
  /\ calls = <<>>
  /\ downloads = <<>>
  /\ logins = <<>>

\* the calls made so far that build a request
CallsMade == Len(calls) + Len(downloads) + Len(logins)

InFlight == {"sent", "refreshing", "retrying"}

\* a verb method is called: the observable is built with the headers of that
\* moment and subscribed, which sends the first request
VerbRequest(verb, uri, max) ==
  /\ CallsMade < max
  /\ calls' = Append(calls,
       [verb |-> verb, uri |-> uri, pc |-> "sent",
        request |-> VerbHttp(verb, uri, cookies), sends |-> 1, refreshes |-> 0,
        refreshRequest |-> NoRefreshHttp,
        first |-> NoResp, refresh |-> NoResp, retry |-> NoResp,
        closure |-> <<>>])
  /\ UNCHANGED <<cookies, route, reloading, downloads, logins>>

GetRequest == \E uri \in Uris : VerbRequest("GET", uri, MaxCalls)

PostRequest == \E uri \in Uris : VerbRequest("POST", uri, MaxCalls)

DeleteRequest == \E uri \in Uris : VerbRequest("DELETE", uri, MaxCalls)

PutRequest == \E uri \in Uris : VerbRequest("PUT", uri, MaxCalls)

\* the call record after the answer to its first request: closure on success
\* and on an error other than 401, RefreshToken() on 401
AfterFirst(call, resp, ck) ==
  [call EXCEPT
     !.first = resp,
     !.closure = call.closure \o FirstClosure(resp),
     !.pc = FirstPc(resp),
     !.request = IF FirstPc(resp) = "refreshing" THEN RefreshHttp(ck) ELSE call.request,
     !.refreshRequest = IF FirstPc(resp) = "refreshing" THEN RefreshHttp(ck)
                        ELSE call.refreshRequest,
     !.refreshes = IF FirstPc(resp) = "refreshing" THEN call.refreshes + 1 ELSE call.refreshes]

\* a 401 joining the refresh another call has in flight, without a refresh
\* request of its own
FirstResponseJoinsRefresh(c) ==
  /\ c \in DOMAIN calls
  /\ calls[c].pc = "sent"
  /\ \E resp \in FirstResps :
       calls' = [calls EXCEPT ![c] =
                   IF resp.status = 401
                      /\ \E d \in DOMAIN calls : d # c /\ calls[d].pc = "refreshing"
                     THEN [calls[c] EXCEPT !.first = resp, !.pc = "refreshing"]
                     ELSE AfterFirst(calls[c], resp, cookies)]
  /\ UNCHANGED <<cookies, route, reloading, downloads, logins>>

FirstResponse(c) ==
  /\ c \in DOMAIN calls
  /\ calls[c].pc = "sent"
  /\ \E resp \in FirstResps :
       calls' = [calls EXCEPT ![c] = AfterFirst(calls[c], resp, cookies)]
  /\ UNCHANGED <<cookies, route, reloading, downloads, logins>>

\* the call record after the answer to its refresh request, given the cookies
\* RefreshToken's own pipeline has left: a value from RefreshToken() makes
\* switchMap reissue the request, an error goes to the inner catchError
AfterRefresh(call, resp, ck) ==
  IF RefreshTokenOutput(resp) = "next"
    THEN [call EXCEPT !.refresh = resp,
                      !.request = RetryRequest(call, ck),
                      !.sends = call.sends + 1,
                      !.pc = "retrying"]
    ELSE [call EXCEPT !.refresh = resp,
                      !.closure = call.closure \o RefreshErrorClosure(resp),
                      !.pc = "done"]

\* the reissued request built from the cookies as they were before
\* RefreshToken's pipeline handled the response
RefreshResponseStaleHeaders(c) ==
  /\ c \in DOMAIN calls
  /\ calls[c].pc = "refreshing"
  /\ \E resp \in RefreshResps :
       /\ cookies' = RefreshCookies(cookies, resp)
       /\ route' = RefreshRoute(route, resp)
       /\ reloading' = (reloading \/ RefreshReloads(resp))
       /\ calls' = [calls EXCEPT ![c] = AfterRefresh(calls[c], resp, cookies)]
  /\ UNCHANGED <<downloads, logins>>

RefreshResponse(c) ==
  /\ c \in DOMAIN calls
  /\ calls[c].pc = "refreshing"
  /\ \E resp \in RefreshResps :
       /\ cookies' = RefreshCookies(cookies, resp)
       /\ route' = RefreshRoute(route, resp)
       /\ reloading' = (reloading \/ RefreshReloads(resp))
       /\ calls' = [calls EXCEPT ![c] = AfterRefresh(calls[c], resp, cookies')]
  /\ UNCHANGED <<downloads, logins>>

\* a 401 on the reissued request starting another refresh
AfterRetryRefreshAgain(call, resp) ==
  IF resp.status = 401
    THEN [call EXCEPT !.retry = resp,
                      !.refreshes = call.refreshes + 1,
                      !.pc = "refreshing"]
    ELSE [call EXCEPT !.retry = resp,
                      !.closure = call.closure \o RetryClosure(resp),
                      !.pc = "done"]

\* the call record after the answer to the reissued request
AfterRetry(call, resp) ==
  [call EXCEPT !.retry = resp,
               !.closure = call.closure \o RetryClosure(resp),
               !.pc = "done"]

RetryResponse(c) ==
  /\ c \in DOMAIN calls
  /\ calls[c].pc = "retrying"
  /\ \E resp \in RetryResps :
       calls' = [calls EXCEPT ![c] = AfterRetry(calls[c], resp)]
  /\ UNCHANGED <<cookies, route, reloading, downloads, logins>>

\* logoutUser called by the application
logoutUser ==
  /\ cookies' = LogoutCookies(cookies)
  /\ reloading' = TRUE
  /\ UNCHANGED <<route, calls, downloads, logins>>

\* the reload requested by window.location.reload() takes effect: the page
\* is unloaded and no pipeline of it receives anything any more
Unload ==
  /\ reloading
  /\ reloading' = FALSE
  /\ calls' = [c \in DOMAIN calls |->
                 IF calls[c].pc \in InFlight
                   THEN [calls[c] EXCEPT !.pc = "unloaded"]
                   ELSE calls[c]]
  /\ UNCHANGED <<cookies, route, downloads, logins>>

----------------------------------------------------------------------------
(* PostDownload, authenticateUser, autoLogin *)

Passwords == {"pw"}

Usernames == {"u1"}

\* the request of the observable PostDownload builds: a POST with a blob
\* response type and an Accept header, and no Authorization header
DownloadHttp(uri) ==
  [method |-> "POST", url |-> apiUrl \o uri, body |-> Obj("payload", ""),
   responseType |-> "blob",
   Accept |-> "application/vnd.openxmlformats-officedocument.spreadsheetml.sheet"]

\* how PostDownload ends: with .pipe(...), where the verb methods end with
\* .pipe(...).subscribe()
PostDownloadSubscribes == FALSE

\* an HttpClient observable sends its request once per subscription
SentBy(subscribed) == IF subscribed THEN 1 ELSE 0

\* PostDownload: the observable is built and dropped; map (window.open) and
\* catchError (console.log) wait for a subscription that is never made
PostDownload ==
  /\ CallsMade < MaxCalls
  /\ \E uri \in Uris :
       downloads' = Append(downloads,
         [request |-> DownloadHttp(uri), sent |-> SentBy(PostDownloadSubscribes)])
  /\ UNCHANGED <<cookies, route, reloading, calls, logins>>

\* the request of the observable authenticateUser returns
LoginHttp(username, password) ==
  [method |-> "POST", url |-> apiUrl \o "/auth/login",
   Username |-> username, Password |-> password]

\* the answers to a login request
LoginResps ==
  {[status |-> 200, body |-> Obj("login-ok", ""), access_token |-> "A1", refresh_token |-> "R1"],
   ErrResp(401, ErrorBody("login"))}

\* authenticateUser: the observable of the login request is returned to the
\* caller, who subscribes to it
authenticateUser ==
  /\ CallsMade < MaxCalls
  /\ \E username \in Usernames, password \in Passwords :
       logins' = Append(logins, [request |-> LoginHttp(username, password), resp |-> NoResp])
  /\ UNCHANGED <<cookies, route, reloading, calls, downloads>>

\* the answer to a login request storing its tokens, as RefreshToken does
LoginResponseStoresTokens(l) ==
  /\ l \in DOMAIN logins
  /\ logins[l].resp = NoResp
  /\ \E resp \in LoginResps :
       /\ logins' = [logins EXCEPT ![l].resp = resp]
       /\ cookies' = RefreshCookies(cookies, resp)
  /\ UNCHANGED <<route, reloading, calls, downloads>>

\* the answer to a login request goes to the caller's subscription; the
\* service has no operator on that observable
LoginResponse(l) ==
  /\ l \in DOMAIN logins
  /\ logins[l].resp = NoResp
  /\ \E resp \in LoginResps :
       logins' = [logins EXCEPT ![l].resp = resp]
  /\ UNCHANGED <<cookies, route, reloading, calls, downloads>>

Landing == "/public/service-request"

\* autoLogin redirecting when an access token is stored
AutoLoginRouteByToken(ck, rt) ==
  IF CookieGet(ck, "access_token") # "" THEN Landing ELSE rt

\* the destination after autoLogin: the landing page when is_loggedin is
\* 'yes', the current one otherwise
AutoLoginRoute(ck, rt) ==
  IF CookieGet(ck, "is_loggedin") = "yes" THEN Landing ELSE rt

autoLogin ==
  /\ route' = AutoLoginRoute(cookies, route)
  /\ UNCHANGED <<cookies, reloading, calls, downloads, logins>>

Next ==
  \/ GetRequest
  \/ PostRequest
  \/ DeleteRequest
  \/ PutRequest
  \/ \E c \in DOMAIN calls : FirstResponse(c)
  \/ \E c \in DOMAIN calls : RefreshResponse(c)
  \/ \E c \in DOMAIN calls : RetryResponse(c)
  \/ logoutUser
  \/ Unload
  \/ PostDownload
  \/ authenticateUser
  \/ \E l \in DOMAIN logins : LoginResponse(l)
  \/ autoLogin

Spec == Init /\ [][Next]_vars

\* several GetRequest calls in flight at once; the pipelines of the other
\* three methods differ from it in the HTTP method alone
ConcGetRequest == \E uri \in Uris : VerbRequest("GET", uri, MaxConcurrent)

ConcNext ==
  \/ ConcGetRequest
  \/ \E c \in DOMAIN calls : FirstResponse(c)
  \/ \E c \in DOMAIN calls : RefreshResponse(c)
  \/ \E c \in DOMAIN calls : RetryResponse(c)
  \/ logoutUser
  \/ Unload

ConcSpec == Init /\ [][ConcNext]_vars

----------------------------------------------------------------------------
(* Claims *)

Finished == {"done", "crashed"}

\* C1: whatever the first attempt, the refresh and the retry are answered,
\* the closure of a verb call is invoked at most once.
C1_AtMostOnce ==
  \A c \in DOMAIN calls : Len(calls[c].closure) <= 1

\* a call went through 401, refresh and retry and invoked its closure once
C1_Witness ==
  \E c \in DOMAIN calls :
    /\ calls[c].first.status = 401
    /\ calls[c].retry.status # -1
    /\ Len(calls[c].closure) = 1

\* C2: every verb call whose requests have all been answered has invoked its
\* closure (never zero times), also when the first attempt failed with a
\* status other than 401 and the response had no error body.
C2_HandlerInvoked ==
  \A c \in DOMAIN calls :
    calls[c].pc \in Finished => Len(calls[c].closure) >= 1

\* C3: after a 401 and a successful refresh the request is reissued exactly
\* once, with the access token the refresh stored, and the closure receives
\* the outcome of the reissued request and nothing else.
C3_RetryAfterRefresh ==
  \A c \in DOMAIN calls :
    (calls[c].first.status = 401 /\ calls[c].refresh.status = 200) =>
      /\ calls[c].sends = 2
      /\ calls[c].request.method = calls[c].verb
      /\ calls[c].request.url = apiUrl \o calls[c].uri
      /\ calls[c].request.Authorization = "Bearer " \o calls[c].refresh.access_token
      /\ calls[c].closure =
           IF calls[c].retry = NoResp THEN <<>>
           ELSE <<Invocation(calls[c].retry.status, calls[c].retry.body)>>

\* a refreshed call whose reissued request failed and reached the closure
C3_Witness ==
  \E c \in DOMAIN calls :
    /\ calls[c].first.status = 401
    /\ calls[c].refresh.status = 200
    /\ calls[c].retry.status = 500
    /\ calls[c].closure = <<Invocation(500, ErrorBody("retry"))>>
    /\ calls[c].request.Authorization = "Bearer A2"

\* C4: a call whose refresh request failed (401 or any other status) issues
\* no further request: its original request has been sent once only.
C4_RefreshFailureTerminal ==
  \A c \in DOMAIN calls :
    calls[c].refresh.status \notin {-1, 200} => calls[c].sends = 1

\* C5: after a 401 on the first attempt and a 401 on the refresh, the closure
\* is invoked with the status and body of the refresh failure.
C5_RefreshFailureDelivered ==
  \A c \in DOMAIN calls :
    (calls[c].first.status = 401 /\ calls[c].refresh.status = 401
       /\ calls[c].pc \in Finished) =>
      calls[c].closure = <<Invocation(401, calls[c].refresh.body)>>

\* C6: a verb call issues at most one refresh request and sends its request
\* at most twice; a 401 on the reissued request ends the call and is handed
\* to the closure.
C6_OneRefreshCycle ==
  \A c \in DOMAIN calls :
    /\ calls[c].refreshes <= 1
    /\ calls[c].sends <= 2
    /\ calls[c].retry.status = 401 =>
         /\ calls[c].pc = "done"
         /\ calls[c].closure = <<Invocation(401, calls[c].retry.body)>>

\* the reissued request of a refreshed call was answered with 401
C6_Witness ==
  \E c \in DOMAIN calls :
    /\ calls[c].refresh.status = 200
    /\ calls[c].retry.status = 401
    /\ calls[c].refreshes = 1
    /\ calls[c].sends = 2

\* C7: after a first attempt that failed with a status other than 401 there
\* is no refresh and no retry, and the closure has received that status with
\* the error payload of that response as received.
C7_OtherFailureDelivered ==
  \A c \in DOMAIN calls :
    calls[c].first.status \notin {-1, 200, 401} =>
      /\ calls[c].refreshes = 0
      /\ calls[c].sends = 1
      /\ calls[c].closure = <<Invocation(calls[c].first.status, calls[c].first.body)>>

\* C8: the step that handles a refresh response with a status other than 401
\* and 200 leaves the five session keys as they were and navigates to /400.
C8_OtherRefreshFailureKeepsSession ==
  [][\A c \in DOMAIN calls :
       (calls[c].refresh = NoResp /\ calls'[c].refresh.status \notin {-1, 200, 401}) =>
         (cookies' = cookies /\ route' = "/400")]_vars

\* a refresh failed with 500 in a logged-in session, which is still there
C8_Witness ==
  \E c \in DOMAIN calls :
    /\ calls[c].refresh.status = 500
    /\ route = "/400"
    /\ cookies = LoggedIn

\* C9: right after logoutUser, called by the application or by RefreshToken
\* on a 401, each of the five keys reads as absent and a reload is requested.
C9_LogoutClearsSession ==
  [][(logoutUser \/ \E c \in DOMAIN calls :
                      calls[c].refresh = NoResp /\ calls'[c].refresh.status = 401) =>
       ((\A k \in SessionKeys : CookieGet(cookies', k) = "") /\ reloading')]_vars

\* the application logged out of a session that was logged in: a request was
\* sent with the token of that session and no refresh was rejected
C9_Witness ==
  /\ reloading
  /\ \A k \in SessionKeys : CookieGet(cookies, k) = ""
  /\ \E c \in DOMAIN calls : calls[c].request = VerbHttp(calls[c].verb, calls[c].uri, LoggedIn)
  /\ \A c \in DOMAIN calls : calls[c].refresh.status # 401

\* C10: in every reachable state access_token and refresh_token are both
\* present or both absent.
C10_TokensBothOrNeither ==
  (CookieGet(cookies, "access_token") = "") <=> (CookieGet(cookies, "refresh_token") = "")

\* one call's refresh was rejected and cleared the session, then another
\* call's refresh succeeded and stored its pair
C10_Witness ==
  \E c1, c2 \in DOMAIN calls :
    /\ calls[c1].refresh.status = 401
    /\ calls[c2].refresh.status = 200
    /\ CookieGet(cookies, "is_loggedin") = ""
    /\ CookieGet(cookies, "access_token") = calls[c2].refresh.access_token
    /\ CookieGet(cookies, "refresh_token") = calls[c2].refresh.refresh_token

\* the token pair the store holds
StoredPair(ck) == <<CookieGet(ck, "access_token"), CookieGet(ck, "refresh_token")>>

\* the token pair of a refresh response
PairOf(resp) == <<resp.access_token, resp.refresh_token>>

\* the pairs that were issued together: the pair of the login, the pairs of
\* the refresh endpoint, and no tokens at all
IssuedTogether ==
  {StoredPair(LoggedIn), StoredPair(LoggedOut)} \cup TokenPairs

\* C11: between the steps of the service, which is where every request
\* header and every refresh request is built, the store holds an access
\* token and a refresh token that were issued together.
C11_PairIssuedTogether ==
  StoredPair(cookies) \in IssuedTogether

\* two calls refreshed with different pairs and the store holds one of them
C11_Witness ==
  \E c1, c2 \in DOMAIN calls :
    /\ calls[c1].refresh.status = 200
    /\ calls[c2].refresh.status = 200
    /\ PairOf(calls[c1].refresh) # PairOf(calls[c2].refresh)
    /\ StoredPair(cookies) = PairOf(calls[c2].refresh)

\* C12: every request a verb method sends, the first one (built when the
\* method is called) and the reissued one (built after RefreshToken's
\* pipeline has handled the refresh response), carries Authorization: Bearer
\* followed by the access_token cookie as it is when the request is built.
C12_BearerOfStoredToken ==
  [][/\ Len(calls') > Len(calls) =>
          calls'[Len(calls')].request.Authorization
            = "Bearer " \o CookieGet(cookies, "access_token")
     /\ \A c \in DOMAIN calls :
          calls'[c].sends > calls[c].sends =>
            calls'[c].request.Authorization
              = "Bearer " \o CookieGet(cookies', "access_token")]_vars

\* the session holds the access token A1 of a login and the request of a
\* verb call made in it is in flight with Bearer A1
C12_Witness ==
  /\ CookieGet(cookies, "access_token") = "A1"
  /\ \E c \in DOMAIN calls :
       calls[c].pc = "sent" /\ calls[c].request.Authorization = "Bearer A1"

\* C16: every call whose first attempt is answered with 401 posts a refresh
\* request of its own, whatever the other calls are doing, and that request
\* carries the username and the refresh token stored when it is built.
C16_OwnRefreshPerCall ==
  [][\A c \in DOMAIN calls :
       (calls[c].pc = "sent" /\ calls'[c].first.status = 401) =>
         /\ calls'[c].pc = "refreshing"
         /\ calls'[c].refreshes = 1
         /\ calls'[c].request.url = apiUrl \o "/auth/refresh-token"
         /\ calls'[c].request.Username = CookieGet(cookies, "logged_user")
         /\ calls'[c].request.RefreshToken = CookieGet(cookies, "refresh_token")]_vars

\* two refresh requests are in flight at once and carry the same refresh token
C16_Witness ==
  \E c1, c2 \in DOMAIN calls :
    /\ c1 # c2
    /\ calls[c1].pc = "refreshing"
    /\ calls[c2].pc = "refreshing"
    /\ calls[c1].request.RefreshToken = "R1"
    /\ calls[c2].request.RefreshToken = "R1"

\* C17: when one call's refresh has succeeded and its pair is stored, the
\* step in which another call's refresh, posted with the same refresh token,
\* is rejected with 401 clears the session and sends the user to /401.
C17_RejectedTwinLogsOut ==
  [][\A c1, c2 \in DOMAIN calls :
       (/\ c1 # c2
        /\ calls[c1].refresh.status = 200
        /\ StoredPair(cookies) = PairOf(calls[c1].refresh)
        /\ calls[c2].pc = "refreshing"
        /\ calls[c2].refreshRequest.RefreshToken = calls[c1].refreshRequest.RefreshToken
        /\ calls'[c2].refresh.status = 401) =>
         (cookies' = LoggedOut /\ reloading' /\ route' = "/401")]_vars

\* both calls posted their refresh with R1; one got a pair, the other was
\* rejected afterwards, and the user is logged out
C17_Witness ==
  \E c1, c2 \in DOMAIN calls :
    /\ calls[c1].refreshRequest.RefreshToken = "R1"
    /\ calls[c2].refreshRequest.RefreshToken = "R1"
    /\ calls[c1].refresh.status = 200
    /\ calls[c2].refresh.status = 401
    /\ cookies = LoggedOut
    /\ route = "/401"
    /\ reloading

\* C18: when one call's refresh has succeeded, the step in which another
\* call's refresh succeeds leaves the pair of that later handled response
\* in the store, whichever pair the server issued first.
C18_LastHandledPairWins ==
  [][\A c1, c2 \in DOMAIN calls :
       (/\ c1 # c2
        /\ calls[c1].refresh.status = 200
        /\ calls[c2].pc = "refreshing"
        /\ calls'[c2].refresh.status = 200) =>
         StoredPair(cookies') = PairOf(calls'[c2].refresh)]_vars

\* the refresh endpoint numbers its pairs as it issues them: A2, R2 is issued
\* before A3, R3.  Both refreshes were in flight at once (both carry R1);
\* the response with the later pair was handled first, and the store is left
\* with the pair issued first.
C18_Witness ==
  \E c1, c2 \in DOMAIN calls :
    /\ calls[c1].refreshRequest.RefreshToken = "R1"
    /\ calls[c2].refreshRequest.RefreshToken = "R1"
    /\ PairOf(calls[c1].refresh) = <<"A3", "R3">>
    /\ PairOf(calls[c2].refresh) = <<"A2", "R2">>
    /\ calls[c1].request.Authorization = "Bearer A3"
    /\ StoredPair(cookies) = <<"A2", "R2">>

\* C19: the step that handles a successful refresh response sets
\* access_token and refresh_token to the two tokens of that response and
\* leaves is_loggedin, logged_user and role as they were.
C19_RefreshWritesTokensOnly ==
  [][\A c \in DOMAIN calls :
       (calls[c].pc = "refreshing" /\ calls'[c].refresh.status = 200) =>
         /\ StoredPair(cookies') = PairOf(calls'[c].refresh)
         /\ \A k \in {"is_loggedin", "logged_user", "role"} :
              CookieGet(cookies', k) = CookieGet(cookies, k)]_vars

\* a refresh succeeded in a logged-in session: new tokens, the rest as before
C19_Witness ==
  /\ \E c \in DOMAIN calls : PairOf(calls[c].refresh) = <<"A2", "R2">>
  /\ cookies = [LoggedIn EXCEPT !.access_token = "A2", !.refresh_token = "R2"]

\* C20: once logoutUser has cleared the session, no step of a verb call that
\* was in flight with a refresh request of the live session writes
\* access_token or refresh_token again.
C20_ClearedStaysCleared ==
  [][\A c \in DOMAIN calls :
       (/\ cookies = LoggedOut
        /\ calls[c].pc = "refreshing"
        /\ calls[c].request.RefreshToken # ""
        /\ calls'[c].refresh # NoResp) =>
         StoredPair(cookies') = StoredPair(LoggedOut)]_vars

\* C13: every PostDownload call has issued one blob-returning POST request,
\* and that request has no Authorization header.
C13_DownloadRequestIssued ==
  \A d \in DOMAIN downloads :
    /\ downloads[d].sent = 1
    /\ downloads[d].request.method = "POST"
    /\ downloads[d].request.responseType = "blob"
    /\ "Authorization" \notin DOMAIN downloads[d].request

\* C14: the step of an authenticateUser call and the step that delivers the
\* answer to its login request, success or failure, leave the session store
\* as it was; the login request has no Authorization header.
C14_LoginLeavesSession ==
  [][/\ Len(logins') > Len(logins) =>
          /\ cookies' = cookies
          /\ "Authorization" \notin DOMAIN logins'[Len(logins')].request
          /\ logins'[Len(logins')].request.url = apiUrl \o "/auth/login"
     /\ \A l \in DOMAIN logins :
          logins'[l].resp # logins[l].resp => cookies' = cookies]_vars

\* a login was answered with a token pair in a session that holds no tokens,
\* and still holds none
C14_Witness ==
  \E l \in DOMAIN logins :
    /\ logins[l].resp.status = 200
    /\ logins[l].resp.access_token = "A1"
    /\ cookies = LoggedOut

\* C15: an autoLogin step navigates to the landing page when is_loggedin is
\* 'yes' and navigates nowhere otherwise, whatever the two tokens are; it
\* sends no request and leaves the session store as it was.
C15_AutoLoginByFlag ==
  [][autoLogin =>
       /\ (CookieGet(cookies, "is_loggedin") = "yes" => route' = Landing)
       /\ (CookieGet(cookies, "is_loggedin") # "yes" => route' = route)
       /\ cookies' = cookies
       /\ calls' = calls /\ downloads' = downloads /\ logins' = logins]_vars

\* autoLogin has redirected a logged-in session to the landing page
C15_Witness ==
  /\ route = Landing
  /\ CookieGet(cookies, "is_loggedin") = "yes"

====
